---- MODULE Spec2Model ----
(***************************************************************************)
(* Contact manager: the FastAPI handlers of app/main.py over the data      *)
(* access functions of app/data_interactor.py, over one MySQL table        *)
(* contacts(id PK auto-increment, first_name, last_name, phone_number      *)
(* UNIQUE).                                                                *)
(*                                                                         *)
(* A request is a process that walks through its handler: the handler      *)
(* calls one data_interactor function, which runs                          *)
(*   get_db_connection -> connection.cursor -> cursor.execute ->           *)
(*   connection.commit -> (except Error: rollback) -> finally: close       *)
(* and the handler maps what came back to an HTTP status.  Every driver    *)
(* call that can raise mysql.connector.Error is a step with a failing      *)
(* outcome.                                                                *)
(***************************************************************************)
EXTENDS Integers, FiniteSets, TLC

\* ------------------------------------------------------------- bounds
\* Largest id the AUTO_INCREMENT counter hands out in the model.
MaxId == 2

\* Requests handled at once: one in Spec, both in SpecConc.
Requests == {"r1", "r2"}

FirstNames == {"John", "Jane"}
LastNames == {"Doe", "Roe"}
Phones == {"050-1234567", "052-9999999"}

\* Python's None, for an Optional[str] field of ContactUpdate.
None == "None"

Ids == 1..MaxId

VARIABLES
    contacts,     \* the committed rows of table contacts
    next_id,      \* the table's AUTO_INCREMENT counter
    procs,        \* the requests that may be in flight
    pc,           \* where each request is in its handler
    req,          \* the request: route and validated body
    connection,   \* the local `connection`: "None", "open", "lost", "closed"
    cursor,       \* the local `cursor` is not None
    txn,          \* the uncommitted effect of the statement on the connection
    rowcount,     \* cursor.rowcount
    lastrowid,    \* cursor.lastrowid
    statements,   \* statements sent with cursor.execute during the call
    fault,        \* the last mysql.connector.Error met during the call
    result,       \* what the data_interactor function returned or raised
    response,     \* the HTTP status and body of the response
    pre,          \* history: the table when the request came in
    prev,         \* history: the create that the running list follows at once
    deleted       \* history: the ids a committed DELETE removed

vars == <<contacts, next_id, procs, pc, req, connection, cursor, txn, rowcount,
          lastrowid, statements, fault, result, response, pre, prev, deleted>>

\* ------------------------------------------------------------ Contact
Contact(id, first_name, last_name, phone_number) ==
    [id |-> id, first_name |-> first_name, last_name |-> last_name,
     phone_number |-> phone_number]

to_dict(c) ==
    [id |-> c.id, first_name |-> c.first_name, last_name |-> c.last_name,
     phone_number |-> c.phone_number]

IdsOf(table) == {r.id : r \in table}
PhonesOf(table) == {r.phone_number : r \in table}

\* ------------------------------------------------- the SQL statements
NoTxn == [del |-> {}, add |-> {}]

\* The statement raised mysql.connector.Error: IntegrityError for a
\* duplicate phone_number, ProgrammingError for a statement that is not SQL.
StmtError(e) ==
    [ok |-> FALSE, error |-> e, del |-> {}, add |-> {}, rowcount |-> 0, lastrowid |-> 0]

StmtOk(del, add, rc, id) ==
    [ok |-> TRUE, error |-> "none", del |-> del, add |-> add, rowcount |-> rc,
     lastrowid |-> id]

\* phone_number UNIQUE: the rows `add` would duplicate a phone number that
\* a row staying in the table holds.
UniqueViolation(table, del, add) ==
    \E a \in add : \E r \in table \ del : r.phone_number = a.phone_number

\* INSERT INTO contacts (first_name, last_name, phone_number) VALUES (%s, %s, %s)
\* (Variant: the parameters bound in the wrong order.)
InsertRowSwapped(id, first_name, last_name, phone_number) ==
    Contact(id, last_name, first_name, phone_number)

InsertRow(id, first_name, last_name, phone_number) ==
    Contact(id, first_name, last_name, phone_number)

InsertStmt(table, id, r) ==
    LET row == InsertRow(id, r.first_name, r.last_name, r.phone_number)
    IN  IF UniqueViolation(table, {}, {row})
        THEN StmtError("IntegrityError")
        ELSE StmtOk({}, {row}, 1, id)

\* update_contact's update_fields: the columns whose value is not None.
\* (Variant: every column is set, supplied or not.)
update_fieldsAll(r) == {"first_name", "last_name", "phone_number"}

update_fields(r) ==
    {f \in {"first_name", "last_name", "phone_number"} : r[f] # None}

\* UPDATE contacts SET <update_fields> WHERE id = %s, applied to one row.
\* (Variant: all three columns set from the body.)
SetClauseAll(row, r) ==
    Contact(row.id, r.first_name, r.last_name, r.phone_number)

SetClause(row, r) ==
    Contact(row.id,
            IF "first_name" \in update_fields(r) THEN r.first_name ELSE row.first_name,
            IF "last_name" \in update_fields(r) THEN r.last_name ELSE row.last_name,
            IF "phone_number" \in update_fields(r) THEN r.phone_number
                                                   ELSE row.phone_number)

\* MySQL's affected rows of an UPDATE: the rows the statement changed.
Affected(old, new) == Cardinality(old \ new)

UpdateStmt(table, r) ==
    LET old == {row \in table : row.id = r.contact_id}
        new == {SetClause(row, r) : row \in old}
    IN  IF update_fields(r) = {}
        THEN StmtError("ProgrammingError")
        ELSE IF UniqueViolation(table, old, new)
        THEN StmtError("IntegrityError")
        ELSE StmtOk(old \ new, new \ old, Affected(old, new), 0)

\* DELETE FROM contacts WHERE id = %s
\* (Variant: no WHERE clause.)
DeleteWhereAll(table, id) == table

DeleteWhere(table, id) == {row \in table : row.id = id}

DeleteStmt(table, r) ==
    LET old == DeleteWhere(table, r.contact_id)
    IN  StmtOk(old, {}, Cardinality(old), 0)

\* SELECT id, first_name, last_name, phone_number FROM contacts, each row
\* made a Contact.  The order of the rows is the database's; the result is
\* kept as the collection of its elements.
SelectStmt(table) ==
    {Contact(row.id, row.first_name, row.last_name, row.phone_number) : row \in table}

Statement(table, id, r) ==
    CASE r.op = "create" -> InsertStmt(table, id, r)
      [] r.op = "update" -> UpdateStmt(table, r)
      [] r.op = "delete" -> DeleteStmt(table, r)
      [] OTHER -> StmtOk({}, {}, Cardinality(table), 0)

\* --------------------------------------------- the database's row locks
\* An uncommitted statement holds the rows it wrote and their unique keys
\* until its connection commits, rolls back or goes away.
LocksOf(t) ==
    {<<"id", row.id>> : row \in t.del \cup t.add}
        \cup {<<"phone", row.phone_number>> : row \in t.del \cup t.add}

Needs(r) ==
    CASE r.op = "create" -> {<<"phone", r.phone_number>>}
      [] r.op = "update" ->
            {<<"id", r.contact_id>>}
                \cup (IF r.phone_number # None THEN {<<"phone", r.phone_number>>} ELSE {})
      [] r.op = "delete" -> {<<"id", r.contact_id>>}
      [] OTHER -> {}

HeldByOthers(p) == UNION {LocksOf(txn[q]) : q \in procs \ {p}}

Blocked(p) == Needs(req[p]) \cap HeldByOthers(p) # {}

\* ------------------------------------------------------- return values
RetNone == [tag |-> "None"]
RetInt(n) == [tag |-> "int", v |-> n]
RetBool(b) == [tag |-> "bool", v |-> b]
RetList(cs) == [tag |-> "list", v |-> cs]
Raised(e) == [tag |-> "raise", v |-> e]
Pending == [tag |-> "pending"]

\* What each function returns from its `except Error` clause.
Sentinel(op) ==
    CASE op = "create" -> RetNone
      [] op = "list" -> RetList({})
      [] OTHER -> RetBool(FALSE)

\* What each function returns at the end of its `try` block.
\* (Variant: rowcount >= 0.)
RowcountAtLeastZero(op, rc, id) ==
    CASE op = "create" -> RetInt(id)
      [] OTHER -> RetBool(rc >= 0)

ReturnValue(op, rc, id) ==
    CASE op = "create" -> RetInt(id)
      [] OTHER -> RetBool(rc > 0)

\* ------------------------------------------------------------ requests
CreateBody(F, L) ==
    {[op |-> "create", first_name |-> f, last_name |-> l, phone_number |-> ph] :
        f \in F, l \in L, ph \in Phones}

UpdateBody(F, L) ==
    {[op |-> "update", contact_id |-> i, first_name |-> f, last_name |-> l,
      phone_number |-> ph] :
        i \in Ids, f \in F \cup {None}, l \in L \cup {None}, ph \in Phones \cup {None}}

DeletePath == {[op |-> "delete", contact_id |-> i] : i \in Ids}

ListPath == {[op |-> "list"]}

RequestSet(F, L) == CreateBody(F, L) \cup UpdateBody(F, L) \cup DeletePath \cup ListPath

\* The bodies of the concurrent runs: one name, and updates of the phone
\* number alone (or of nothing).
ConcRequestSet ==
    CreateBody({"John"}, {"Doe"}) \cup UpdateBody({}, {}) \cup DeletePath \cup ListPath

NoRequest == [op |-> "none"]
NoResponse == [status |-> 0]
NoSnapshot == {}
NoPrev == [op |-> "none"]

\* -------------------------------------------------------------- Init
InitWith(ps) ==
    /\ contacts = {}
    /\ next_id = 1
    /\ procs = ps
    /\ pc = [p \in Requests |-> "idle"]
    /\ req = [p \in Requests |-> NoRequest]
    /\ connection = [p \in Requests |-> "None"]
    /\ cursor = [p \in Requests |-> FALSE]
    /\ txn = [p \in Requests |-> NoTxn]
    /\ rowcount = [p \in Requests |-> -1]
    /\ lastrowid = [p \in Requests |-> 0]
    /\ statements = [p \in Requests |-> 0]
    /\ fault = [p \in Requests |-> "none"]
    /\ result = [p \in Requests |-> Pending]
    /\ response = [p \in Requests |-> NoResponse]
    /\ pre = [p \in Requests |-> NoSnapshot]
    /\ prev = [p \in Requests |-> NoPrev]
    /\ deleted = {}

Init == InitWith({"r1"})

InitConc == InitWith(Requests)

\* ------------------------------------------------- the request arrives
\* The route's handler is entered with a validated body and calls its one
\* data_interactor function, which starts with connection and cursor None
\* (the frame of the call before is gone: forget, finally_respond).  The
\* table as it is now is kept in pre; prev survives only into a list.
Request(p, r, snap) ==
    /\ pc[p] = "idle"
    /\ req' = [req EXCEPT ![p] = r]
    /\ pc' = [pc EXCEPT ![p] = "connect"]
    /\ cursor' = [cursor EXCEPT ![p] = FALSE]
    /\ response' = [response EXCEPT ![p] = NoResponse]
    /\ pre' = [pre EXCEPT ![p] = snap]
    /\ prev' = [prev EXCEPT ![p] = IF r.op = "list" THEN @ ELSE NoPrev]
    /\ UNCHANGED <<contacts, next_id, procs, connection, txn, rowcount, lastrowid,
                   statements, fault, result, deleted>>

\* ------------------------------------------------- get_db_connection
\* connect() returns a live connection, raises Error (printed, re-raised),
\* or returns a connection that is not connected, and then the function
\* returns None: the caller's connection.cursor() raises AttributeError,
\* which no `except Error` clause catches.
get_db_connection(p) ==
    /\ pc[p] = "connect"
    /\ \/ /\ connection' = [connection EXCEPT ![p] = "open"]
          /\ pc' = [pc EXCEPT ![p] = "cursor"]
          /\ UNCHANGED <<fault, result>>
       \/ /\ fault' = [fault EXCEPT ![p] = "Error"]
          /\ pc' = [pc EXCEPT ![p] = "except"]
          /\ UNCHANGED <<connection, result>>
       \/ /\ fault' = [fault EXCEPT ![p] = "not_connected"]
          /\ result' = [result EXCEPT ![p] = Raised("AttributeError")]
          /\ pc' = [pc EXCEPT ![p] = "finally"]
          /\ UNCHANGED connection
    /\ UNCHANGED <<contacts, next_id, procs, req, cursor, txn, rowcount, lastrowid,
                   statements, response, pre, prev, deleted>>

\* connection.cursor(): raises OperationalError when the connection went
\* away since it was made.
connection_cursor(p) ==
    /\ pc[p] = "cursor"
    /\ \/ /\ cursor' = [cursor EXCEPT ![p] = TRUE]
          /\ pc' = [pc EXCEPT ![p] = "execute"]
          /\ UNCHANGED <<connection, fault>>
       \/ /\ connection' = [connection EXCEPT ![p] = "lost"]
          /\ fault' = [fault EXCEPT ![p] = "Error"]
          /\ pc' = [pc EXCEPT ![p] = "except"]
          /\ UNCHANGED cursor
    /\ UNCHANGED <<contacts, next_id, procs, req, txn, rowcount, lastrowid,
                   statements, result, response, pre, prev, deleted>>

\* ----------------------------------------------------- cursor.execute
\* update_contact returns False before cursor.execute when no field is
\* supplied.  (Variant: no such test.)
NoFieldsNever(r) == FALSE

NoFields(r) == r.op = "update" /\ update_fields(r) = {}

\* The statement runs at the database as one atomic step against the
\* committed table, once no other connection holds a row or key it needs.
\* It raises Error on a constraint violation, and at any time for a reason
\* of the connection or the server (the connection may be lost with it).
cursor_execute(p) ==
    /\ pc[p] = "execute"
    /\ \/ /\ NoFields(req[p])
          /\ result' = [result EXCEPT ![p] = RetBool(FALSE)]
          /\ pc' = [pc EXCEPT ![p] = "finally"]
          /\ UNCHANGED <<next_id, connection, txn, rowcount, lastrowid, statements, fault>>
       \/ /\ ~NoFields(req[p])
          /\ ~Blocked(p)
          /\ LET s == Statement(contacts, next_id, req[p])
             IN  /\ (req[p].op = "create" /\ s.ok) => next_id <= MaxId
                 /\ statements' = [statements EXCEPT ![p] = @ + 1]
                 /\ IF s.ok
                    THEN /\ txn' = [txn EXCEPT ![p] = [del |-> s.del, add |-> s.add]]
                         /\ rowcount' = [rowcount EXCEPT ![p] = s.rowcount]
                         /\ lastrowid' = [lastrowid EXCEPT ![p] = s.lastrowid]
                         /\ next_id' = IF req[p].op = "create" THEN next_id + 1 ELSE next_id
                         /\ IF req[p].op = "list"
                            THEN /\ result' = [result EXCEPT ![p] = RetList(SelectStmt(contacts))]
                                 /\ pc' = [pc EXCEPT ![p] = "finally"]
                            ELSE /\ pc' = [pc EXCEPT ![p] = "commit"]
                                 /\ UNCHANGED result
                         /\ UNCHANGED fault
                    ELSE /\ fault' = [fault EXCEPT ![p] = s.error]
                         /\ pc' = [pc EXCEPT ![p] = "except"]
                         /\ UNCHANGED <<next_id, txn, rowcount, lastrowid, result>>
          /\ UNCHANGED connection
       \/ /\ ~NoFields(req[p])
          /\ \E c \in {"open", "lost"} :
                connection' = [connection EXCEPT ![p] = c]
          /\ statements' = [statements EXCEPT ![p] = @ + 1]
          /\ fault' = [fault EXCEPT ![p] = "Error"]
          /\ pc' = [pc EXCEPT ![p] = "except"]
          /\ UNCHANGED <<next_id, txn, rowcount, lastrowid, result>>
    /\ UNCHANGED <<contacts, procs, req, cursor, response, pre, prev, deleted>>

\* ---------------------------------------------------- connection.commit
\* The statement's effect becomes the table's; the function returns
\* cursor.lastrowid (create) or cursor.rowcount > 0 (update, delete).  A
\* commit that raises Error commits nothing.  `keep`: the history of the
\* deleted ids is recorded.
Commit(table, t) == (table \ t.del) \cup t.add

connection_commit(p, keep) ==
    /\ pc[p] = "commit"
    /\ \/ /\ contacts' = Commit(contacts, txn[p])
          /\ deleted' = IF keep /\ req[p].op = "delete"
                        THEN deleted \cup IdsOf(contacts \ contacts')
                        ELSE deleted
          /\ txn' = [txn EXCEPT ![p] = NoTxn]
          /\ result' = [result EXCEPT ![p] =
                            ReturnValue(req[p].op, rowcount[p], lastrowid[p])]
          /\ pc' = [pc EXCEPT ![p] = "finally"]
          /\ UNCHANGED <<connection, fault>>
       \/ /\ \E c \in {"open", "lost"} :
                /\ connection' = [connection EXCEPT ![p] = c]
                /\ txn' = [txn EXCEPT ![p] = IF c = "lost" THEN NoTxn ELSE @]
          /\ fault' = [fault EXCEPT ![p] = "Error"]
          /\ pc' = [pc EXCEPT ![p] = "except"]
          /\ UNCHANGED <<contacts, result, deleted>>
    /\ UNCHANGED <<next_id, procs, req, cursor, rowcount, lastrowid, statements,
                   response, pre, prev>>

\* ------------------------------------------------------ except Error
\* create, update and delete: `if connection: connection.rollback()`, then
\* return the sentinel.  rollback() itself raises Error on a connection
\* that is gone, and that Error leaves the function.  get_all_contacts has
\* no rollback.
HasRollback(op) == op # "list"

except_Error(p) ==
    /\ pc[p] = "except"
    /\ \/ /\ ~HasRollback(req[p].op) \/ connection[p] = "None"
          /\ result' = [result EXCEPT ![p] = Sentinel(req[p].op)]
          /\ UNCHANGED <<connection, txn, fault>>
       \/ /\ HasRollback(req[p].op)
          /\ connection[p] = "open"
          /\ txn' = [txn EXCEPT ![p] = NoTxn]
          /\ result' = [result EXCEPT ![p] = Sentinel(req[p].op)]
          /\ UNCHANGED <<connection, fault>>
       \/ /\ HasRollback(req[p].op)
          /\ connection[p] \in {"open", "lost"}
          /\ connection' = [connection EXCEPT ![p] = "lost"]
          /\ txn' = [txn EXCEPT ![p] = NoTxn]
          /\ fault' = [fault EXCEPT ![p] = "rollback"]
          /\ result' = [result EXCEPT ![p] = Raised("Error")]
    /\ pc' = [pc EXCEPT ![p] = "finally"]
    /\ UNCHANGED <<contacts, next_id, procs, req, cursor, rowcount, lastrowid,
                   statements, response, pre, prev, deleted>>

\* ------------------------------------------------------------ finally
\* `if cursor: cursor.close()`;
\* `if connection and connection.is_connected(): connection.close()`.
\* cursor.close() resets the cursor's rowcount and lastrowid; closing the
\* connection ends its transaction.  (Variant: the connection is left.)
CloseNever(c) == c

Close(c) == IF c = "open" THEN "closed" ELSE c

\* ------------------------------------------------------- the handlers
HTTP_200_OK == 200
HTTP_201_CREATED == 201
HTTP_400_BAD_REQUEST == 400
HTTP_404_NOT_FOUND == 404
HTTP_500_INTERNAL_SERVER_ERROR == 500

Return(status, body) == [kind |-> "return", status |-> status, body |-> body]
HTTPException(status) == [kind |-> "HTTPException", status |-> status, body |-> "detail"]
OtherException == [kind |-> "Exception", status |-> 0, body |-> "detail"]

\* The `try` block of each handler: the data_interactor call either raises,
\* or its value is mapped to a return or to an HTTPException.
\* (Variant: the value is returned without the `is None` / `not success`
\* test.)
TryBlockUnchecked(op, res) ==
    IF res.tag = "raise" THEN OtherException
    ELSE CASE op = "list" -> Return(HTTP_200_OK, {to_dict(c) : c \in res.v})
           [] op = "create" -> Return(HTTP_201_CREATED, res)
           [] OTHER -> Return(HTTP_200_OK, "message")

TryBlock(op, res) ==
    IF res.tag = "raise" THEN OtherException
    ELSE CASE op = "list" -> Return(HTTP_200_OK, {to_dict(c) : c \in res.v})
           [] op = "create" ->
                IF res.tag = "None"
                THEN HTTPException(HTTP_400_BAD_REQUEST)
                ELSE Return(HTTP_201_CREATED, res.v)
           [] OTHER ->
                IF ~res.v
                THEN HTTPException(HTTP_404_NOT_FOUND)
                ELSE Return(HTTP_200_OK, "message")

\* `except HTTPException: raise` before `except Exception: raise
\* HTTPException(500)`; FastAPI answers an HTTPException with its status.
\* (Variant: `except Exception` alone.)
ExceptClausesCatchAll(out) ==
    IF out.kind = "return"
    THEN [status |-> out.status, body |-> out.body]
    ELSE [status |-> HTTP_500_INTERNAL_SERVER_ERROR, body |-> out.body]

ExceptClauses(out) ==
    CASE out.kind = "return" -> [status |-> out.status, body |-> out.body]
      [] out.kind = "HTTPException" -> [status |-> out.status, body |-> out.body]
      [] OTHER -> [status |-> HTTP_500_INTERNAL_SERVER_ERROR, body |-> out.body]

\* What is left of a call's frame once it is gone: a connection left open
\* stays open at the server.
Dropped(c) == IF c = "open" THEN "open" ELSE "None"

\* The `finally` clause runs, the function returns (or lets its exception
\* go) and the handler answers.  `keep` says whether the record of the
\* finished call (its request, what it met and what it returned) stays
\* readable until forget: it does where the contracts of a single call are
\* stated, and is dropped with the call's frame otherwise.
finally_respond(p, keep) ==
    /\ pc[p] = "finally"
    /\ cursor' = [cursor EXCEPT ![p] = FALSE]
    /\ rowcount' = [rowcount EXCEPT ![p] = -1]
    /\ lastrowid' = [lastrowid EXCEPT ![p] = 0]
    /\ txn' = [txn EXCEPT ![p] = NoTxn]
    /\ LET answer == ExceptClauses(TryBlock(req[p].op, result[p]))
       IN  IF keep
           THEN /\ pc' = [pc EXCEPT ![p] = "done"]
                /\ response' = [response EXCEPT ![p] = answer]
                /\ connection' = [connection EXCEPT ![p] = Close(@)]
                /\ UNCHANGED <<req, statements, fault, result>>
           ELSE /\ pc' = [pc EXCEPT ![p] = "idle"]
                /\ response' = [response EXCEPT ![p] = [status |-> answer.status]]
                /\ connection' = [connection EXCEPT ![p] = Dropped(Close(@))]
                /\ req' = [req EXCEPT ![p] = NoRequest]
                /\ statements' = [statements EXCEPT ![p] = 0]
                /\ fault' = [fault EXCEPT ![p] = "none"]
                /\ result' = [result EXCEPT ![p] = Pending]
    /\ UNCHANGED <<contacts, next_id, procs, pre, prev, deleted>>

\* The record of a finished call is dropped; of a create that returned an
\* id, the id and the submitted values are remembered for a list that
\* follows at once.
forget(p) ==
    /\ pc[p] = "done"
    /\ pc' = [pc EXCEPT ![p] = "idle"]
    /\ prev' = [prev EXCEPT ![p] =
            IF req[p].op = "create" /\ result[p].tag = "int"
            THEN [op |-> "create", id |-> result[p].v, first_name |-> req[p].first_name,
                  last_name |-> req[p].last_name, phone_number |-> req[p].phone_number]
            ELSE NoPrev]
    /\ req' = [req EXCEPT ![p] = NoRequest]
    /\ connection' = [connection EXCEPT ![p] = Dropped(@)]
    /\ statements' = [statements EXCEPT ![p] = 0]
    /\ fault' = [fault EXCEPT ![p] = "none"]
    /\ result' = [result EXCEPT ![p] = Pending]
    /\ response' = [response EXCEPT ![p] = NoResponse]
    /\ pre' = [pre EXCEPT ![p] = NoSnapshot]
    /\ UNCHANGED <<contacts, next_id, procs, cursor, txn, rowcount, lastrowid, deleted>>

\* ------------------------------------------------------ specifications
\* One request at a time, with every body the schemas admit.
Next ==
    \E p \in procs :
        \/ \E r \in RequestSet(FirstNames, LastNames) : Request(p, r, contacts)
        \/ get_db_connection(p)
        \/ connection_cursor(p)
        \/ cursor_execute(p)
        \/ connection_commit(p, TRUE)
        \/ except_Error(p)
        \/ finally_respond(p, TRUE)
        \/ forget(p)

Spec == Init /\ [][Next]_vars

\* Two requests handled at once, interleaved at every driver call.
NextConc ==
    \E p \in procs :
        \/ \E r \in ConcRequestSet : Request(p, r, NoSnapshot)
        \/ get_db_connection(p)
        \/ connection_cursor(p)
        \/ cursor_execute(p)
        \/ connection_commit(p, FALSE)
        \/ except_Error(p)
        \/ finally_respond(p, FALSE)

SpecConc == InitConc /\ [][NextConc]_vars

\* ============================================================== claims
\* The handler of p has answered and the record of its call is kept.
Done(p) == pc[p] = "done" /\ req[p].op # "none"

\* The call of p met no failure of the connection or the server: at most
\* the statement's own error (a duplicate phone_number).
NoFault(p) == fault[p] \in {"none", "IntegrityError"}

InFlight(p) == pc[p] \notin {"idle", "done"}

RowsWithId(table, id) == {r \in table : r.id = id}
RowsWithPhone(table, ph) == {r \in table : r.phone_number = ph}

\* C1: a create that succeeds returns a positive id that no persisted
\* contact held before the call (answered 201 with that id); the table then
\* holds exactly one row with that id, carrying the submitted values, and a
\* list_all run at once after it returns exactly one contact with that id,
\* with the submitted first_name, last_name and phone_number.
C1_CreateThenList ==
    \A p \in procs :
        /\ (Done(p) /\ req[p].op = "create" /\ result[p].tag = "int") =>
                /\ result[p].v > 0
                /\ result[p].v \notin IdsOf(pre[p])
                /\ response[p] = [status |-> HTTP_201_CREATED, body |-> result[p].v]
                /\ RowsWithId(contacts, result[p].v) =
                        {Contact(result[p].v, req[p].first_name, req[p].last_name,
                                 req[p].phone_number)}
        /\ (Done(p) /\ req[p].op = "create" /\ fault[p] = "none") =>
                result[p].tag = "int"
        /\ (Done(p) /\ req[p].op = "list" /\ prev[p].op = "create" /\ NoFault(p)) =>
                /\ result[p].tag = "list"
                /\ RowsWithId(result[p].v, prev[p].id) =
                        {Contact(prev[p].id, prev[p].first_name, prev[p].last_name,
                                 prev[p].phone_number)}
                /\ response[p].status = HTTP_200_OK
                /\ RowsWithId(response[p].body, prev[p].id) =
                        {Contact(prev[p].id, prev[p].first_name, prev[p].last_name,
                                 prev[p].phone_number)}

C1_Witness ==
    \E p \in procs :
        /\ Done(p) /\ req[p].op = "list" /\ prev[p].op = "create"
        /\ result[p].tag = "list"
        /\ Cardinality(result[p].v) = 2
        /\ prev[p].id = 2

\* C2: a create whose phone number a persisted contact already holds never
\* returns an id and leaves the table as it was, with exactly one row of
\* that phone number; met with no connection or server failure, it
\* returns None and POST /contacts answers 400.
C2_DuplicatePhone ==
    \A p \in procs :
        (Done(p) /\ req[p].op = "create"
                 /\ req[p].phone_number \in PhonesOf(pre[p])) =>
            /\ result[p].tag # "int"
            /\ contacts = pre[p]
            /\ Cardinality(RowsWithPhone(contacts, req[p].phone_number)) = 1
            /\ NoFault(p) =>
                    /\ result[p] = RetNone
                    /\ response[p].status = HTTP_400_BAD_REQUEST

C2_Witness ==
    \E p \in procs :
        /\ Done(p) /\ req[p].op = "create"
        /\ req[p].phone_number \in PhonesOf(pre[p])
        /\ fault[p] = "IntegrityError"
        /\ response[p].status = HTTP_400_BAD_REQUEST
        /\ Cardinality(contacts) = 2

\* C3: an update changes only the supplied fields of the row with its id:
\* no row appears or disappears, every other row is as before, and in the
\* row with the id every field that was not supplied (None) is as before.
C3_UpdateFrame ==
    \A p \in procs :
        (Done(p) /\ req[p].op = "update") =>
            /\ IdsOf(contacts) = IdsOf(pre[p])
            /\ Cardinality(contacts) = Cardinality(pre[p])
            /\ \A old \in pre[p] :
                    IF old.id # req[p].contact_id
                    THEN old \in contacts
                    ELSE \E new \in contacts :
                            /\ new.id = old.id
                            /\ \A f \in {"first_name", "last_name", "phone_number"} :
                                    IF req[p][f] = None
                                    THEN new[f] = old[f]
                                    ELSE new[f] \in {old[f], req[p][f]}

C3_Witness ==
    \E p \in procs :
        /\ Done(p) /\ req[p].op = "update"
        /\ update_fields(req[p]) = {"phone_number"}
        /\ result[p] = RetBool(TRUE)
        /\ Cardinality(contacts) = 1
        /\ \E old \in pre[p] : \E new \in contacts :
                /\ old.id = req[p].contact_id /\ new.id = old.id
                /\ new.phone_number = req[p].phone_number
                /\ new.phone_number # old.phone_number
                /\ new.first_name = old.first_name
                /\ new.last_name = old.last_name

\* C4: an update with first_name, last_name and phone_number all absent
\* sends no statement and leaves the table as it was, whether or not the id
\* exists, and never returns True; met with no connection or server
\* failure it returns False and PUT /contacts/{id} answers 404.
C4_NoFields ==
    \A p \in procs :
        (Done(p) /\ req[p].op = "update" /\ update_fields(req[p]) = {}) =>
            /\ statements[p] = 0
            /\ contacts = pre[p]
            /\ result[p] # RetBool(TRUE)
            /\ NoFault(p) =>
                    /\ result[p] = RetBool(FALSE)
                    /\ response[p].status = HTTP_404_NOT_FOUND

C4_Witness ==
    \E p \in procs :
        /\ Done(p) /\ req[p].op = "update" /\ update_fields(req[p]) = {}
        /\ req[p].contact_id \in IdsOf(pre[p])
        /\ NoFault(p)
        /\ response[p].status = HTTP_404_NOT_FOUND

\* C5: update returns True (200) only if a row with the id existed and a
\* supplied field changed its value.  Met with no connection or server
\* failure, an update of an id that is not persisted, and an update whose
\* supplied values all equal the stored ones, return False and PUT answers
\* 404.
Unchanging(r, table) ==
    \E row \in table :
        /\ row.id = r.contact_id
        /\ \A f \in update_fields(r) : row[f] = r[f]

C5_UpdateSuccess ==
    \A p \in procs :
        (Done(p) /\ req[p].op = "update") =>
            /\ result[p] = RetBool(TRUE) =>
                    /\ response[p].status = HTTP_200_OK
                    /\ \E old \in pre[p] :
                            /\ old.id = req[p].contact_id
                            /\ old \notin contacts
                            /\ \E f \in update_fields(req[p]) : old[f] # req[p][f]
            /\ (NoFault(p) /\ (req[p].contact_id \notin IdsOf(pre[p])
                                \/ Unchanging(req[p], pre[p]))) =>
                    /\ result[p] = RetBool(FALSE)
                    /\ response[p].status = HTTP_404_NOT_FOUND
                    /\ contacts = pre[p]

C5_Witness ==
    \E p \in procs :
        /\ Done(p) /\ req[p].op = "update"
        /\ update_fields(req[p]) # {}
        /\ Unchanging(req[p], pre[p])
        /\ statements[p] = 1
        /\ fault[p] = "none"
        /\ response[p].status = HTTP_404_NOT_FOUND

\* C6: met with no connection or server failure, deleting a persisted id
\* returns True (200) and removes exactly that row, every other row staying
\* as it was; an id that a delete removed is never persisted again, so no
\* later list_all returns it, and a later delete of it (as any delete of an
\* id that is not persisted) returns False (404) and leaves the table as it
\* was.
C6_Delete ==
    /\ deleted \cap IdsOf(contacts) = {}
    /\ \A p \in procs :
        /\ (Done(p) /\ req[p].op = "delete") =>
            /\ result[p] = RetBool(TRUE) =>
                    /\ contacts = pre[p] \ RowsWithId(pre[p], req[p].contact_id)
                    /\ req[p].contact_id \in IdsOf(pre[p])
                    /\ req[p].contact_id \in deleted
                    /\ response[p].status = HTTP_200_OK
            /\ result[p] # RetBool(TRUE) => contacts = pre[p]
            /\ NoFault(p) =>
                    /\ result[p] = RetBool(req[p].contact_id \in IdsOf(pre[p]))
                    /\ response[p].status =
                            IF req[p].contact_id \in IdsOf(pre[p])
                            THEN HTTP_200_OK ELSE HTTP_404_NOT_FOUND
        /\ (Done(p) /\ req[p].op = "list" /\ result[p].tag = "list") =>
                IdsOf(result[p].v) \cap deleted = {}

\* A second delete of an id, after the first one removed it, with another
\* row still in the table.
C6_Witness ==
    \E p \in procs :
        /\ Done(p) /\ req[p].op = "delete"
        /\ req[p].contact_id \in deleted
        /\ result[p] = RetBool(FALSE)
        /\ response[p].status = HTTP_404_NOT_FOUND
        /\ contacts # {}

\* C7: every data_interactor call sends at most one statement and has
\* released its connection when it returns, whatever it met: a request
\* that is not inside its call holds no open connection, so the open
\* connections never outnumber the calls in flight.
OpenConnections == {p \in procs : connection[p] = "open"}

C7_ConnectionReleased ==
    /\ \A p \in procs : statements[p] <= 1
    /\ \A p \in procs : ~InFlight(p) => connection[p] # "open"
    /\ Cardinality(OpenConnections) <= Cardinality({p \in procs : InFlight(p)})

\* One call has ended with an exception leaving it (answered 500) while the
\* other holds its connection with a statement not yet committed.
C7_Witness ==
    \E p \in procs : \E q \in procs \ {p} :
        /\ pc[p] = "idle" /\ response[p].status = HTTP_500_INTERNAL_SERVER_ERROR
        /\ connection[p] # "open"
        /\ pc[q] = "commit" /\ connection[q] = "open" /\ statements[q] = 1

\* C8: no data_interactor function lets a failure of the database leave
\* it: whatever fails, create returns None, list_all returns the empty
\* list, update and delete return False, and none of them raises.
C8_NoErrorEscapes ==
    \A p \in procs :
        Done(p) =>
            /\ result[p].tag # "raise"
            /\ ~NoFault(p) => result[p] = Sentinel(req[p].op)

\* C9: the answer is decided by what the one data_interactor call gave:
\* a list gives 200 with its contacts as dictionaries (an empty array for
\* an empty table), an id gives 201 with it, None gives 400, True gives
\* 200, False gives 404, and 500 is given exactly when the call raised; no
\* answer exists before the call has returned.
C9_StatusMapping ==
    \A p \in procs :
        /\ InFlight(p) => response[p] = NoResponse
        /\ Done(p) =>
            /\ statements[p] <= 1
            /\ response[p].status =
                    CASE result[p].tag = "raise" -> HTTP_500_INTERNAL_SERVER_ERROR
                      [] result[p].tag = "list" -> HTTP_200_OK
                      [] result[p].tag = "int" -> HTTP_201_CREATED
                      [] result[p].tag = "None" -> HTTP_400_BAD_REQUEST
                      [] result[p].tag = "bool" ->
                            IF result[p].v THEN HTTP_200_OK ELSE HTTP_404_NOT_FOUND
            /\ result[p].tag = "list" => response[p].body = result[p].v
            /\ result[p].tag = "int" => response[p].body = result[p].v
            /\ (req[p].op = "list" /\ pre[p] = {} /\ NoFault(p)) =>
                    response[p] = [status |-> HTTP_200_OK, body |-> {}]
            /\ result[p].tag = "raise" <=> fault[p] \in {"not_connected", "rollback"}

C9_Witness ==
    \E p \in procs :
        /\ Done(p) /\ req[p].op = "create"
        /\ result[p] = RetNone
        /\ response[p].status = HTTP_400_BAD_REQUEST

\* C10: under any interleaving of two requests, no two persisted contacts
\* share an id or a phone_number and every persisted contact has its four
\* fields; no statement that an open transaction holds uncommitted
\* duplicates a phone number of the table or of another open transaction
\* (of two creates of one phone number in flight at most one gets past
\* cursor.execute); and a statement refused for a duplicate phone number
\* leaves nothing to commit and, its rollback done, its function returns
\* the failure value (None, False).
WellFormed(r) ==
    /\ r.id \in Ids
    /\ r.first_name \in FirstNames
    /\ r.last_name \in LastNames
    /\ r.phone_number \in Phones

C10_StoreInvariant ==
    /\ \A r \in contacts : WellFormed(r)
    /\ \A r1 \in contacts : \A r2 \in contacts :
            (r1.id = r2.id \/ r1.phone_number = r2.phone_number) => r1 = r2
    /\ \A p \in procs :
        /\ \A a \in txn[p].add :
                /\ \A r \in contacts \ txn[p].del :
                        r.id # a.id /\ r.phone_number # a.phone_number
                /\ \A q \in procs \ {p} : \A b \in txn[q].add :
                        b.id # a.id /\ b.phone_number # a.phone_number
        /\ (fault[p] = "IntegrityError" /\ pc[p] \in {"except", "finally"}) =>
                /\ txn[p] = NoTxn
                /\ pc[p] = "finally" => result[p] = Sentinel(req[p].op)

\* Two creates of one phone number are in flight: one holds its row
\* uncommitted, the other waits at cursor.execute for it.
C10_Witness ==
    \E p \in procs : \E q \in procs \ {p} :
        /\ req[p].op = "create" /\ req[q].op = "create"
        /\ req[p].phone_number = req[q].phone_number
        /\ pc[p] = "commit" /\ txn[p].add # {}
        /\ pc[q] = "execute" /\ Blocked(q)
        /\ contacts # {}
====
